---- MODULE Spec2Model ----
(***************************************************************************)
(* ZKSWallet (src/zks_wallet/wallet.rs): the wallet, its two provider      *)
(* slots and the asynchronous operations transfer, transfer_eip712,        *)
(* deploy, deploy_with_receipt, eth_balance and era_balance.  Every await  *)
(* of the source is one step of a run; a run is one invocation of one      *)
(* operation.  The collaborators (provider, fee estimator, signer,         *)
(* transport) answer nondeterministically from small sets.                 *)
(*                                                                         *)
(* Byte strings are kept run-length encoded: a sequence of <<byte, count>> *)
(* pairs with count > 0 and no two neighbouring pairs of the same byte, so *)
(* that equal byte strings are equal values and long bytecode stays small. *)
(***************************************************************************)
EXTENDS Integers, Sequences, FiniteSets, TLC

\* ------------------------------------------------------------------ bounds

\* The provider's transaction count of the wallet's address stops here.
MaxNonce == 2
\* Transfer amounts are 0..MaxAmount.
MaxAmount == 1
\* Gas prices answered by the provider are 1..MaxGasPrice.
MaxGasPrice == 1

\* --------------------------------------------------------------- constants

EIP712_TX_TYPE == 113
ERA_CHAIN_ID == 270
ETH_CHAIN_ID == 9
CONTRACT_DEPLOYER_ADDR == "0x0000000000000000000000000000000000008006"
DEFAULT_GAS_PER_PUBDATA_LIMIT == 50000

\* The two concurrent invocations a wallet shared by reference can carry.
Runs == {1, 2}

None == "None"
NoneOpt == [some |-> FALSE]
Some(v) == [some |-> TRUE, val |-> v]

Ok(v) == [status |-> "Ok", val |-> v]
Err(e) == [status |-> "Err", err |-> e]
Panic(e) == [status |-> "Panic", err |-> e]
Pending == [status |-> "Pending"]

\* ------------------------------------------------------------ byte strings

Rep(byte, n) == IF n = 0 THEN <<>> ELSE << <<byte, n>> >>

BCat(a, b) ==
    IF a = <<>> THEN b
    ELSE IF b = <<>> THEN a
    ELSE IF a[Len(a)][1] = b[1][1]
         THEN SubSeq(a, 1, Len(a) - 1)
                \o << <<b[1][1], a[Len(a)][2] + b[1][2]>> >>
                \o Tail(b)
         ELSE a \o b

RECURSIVE BLen(_)
BLen(b) == IF b = <<>> THEN 0 ELSE b[1][2] + BLen(Tail(b))

\* The first n bytes of b dropped.
RECURSIVE BDrop(_, _)
BDrop(b, n) ==
    IF n = 0 \/ b = <<>> THEN b
    ELSE IF b[1][2] <= n THEN BDrop(Tail(b), n - b[1][2])
    ELSE << <<b[1][1], b[1][2] - n>> >> \o Tail(b)

\* The minimal big-endian bytes of n (none for 0).
RECURSIVE BigEndian(_)
BigEndian(n) ==
    IF n = 0 THEN <<>> ELSE BCat(BigEndian(n \div 256), Rep(n % 256, 1))

\* n as a 32-byte big-endian word (U256 to_big_endian / Token::Uint).
Word(n) == BCat(Rep(0, 32 - BLen(BigEndian(n))), BigEndian(n))

\* b padded with zero bytes to a multiple of 32.
PadRight32(b) == BCat(b, Rep(0, (32 - (BLen(b) % 32)) % 32))

\* --------------------------------------------------------------- addresses

\* The address of the wallet's key (Wallet::address).
WalletAddress == "0x36615Cf349d7F6344891B1e7CA7C72883F5dc049"
Receivers == {"0xa61464658AfeAf65CccaaFD3a512b69A83B77618",
              "0x0000000000000000000000000000000000000001"}
DeployedAddress == "0x5fE58d975604E6aF62328d9E505181B94Fc0718C"

\* Address::from_str: the 40 hex digits after "0x" parsed to an address.
AddressFromStr(s) ==
    IF s \in {WalletAddress, DeployedAddress, CONTRACT_DEPLOYER_ADDR} \cup Receivers
    THEN [ok |-> TRUE, val |-> s]
    ELSE [ok |-> FALSE, err |-> "invalid contract deployer address"]

\* --------------------------------------------------- Eip712Meta and request

Eip712Meta_new ==
    [gas_per_pubdata |-> DEFAULT_GAS_PER_PUBDATA_LIMIT,
     factory_deps |-> <<>>,
     custom_signature |-> <<>>,
     paymaster_params |-> NoneOpt]

Meta_factory_deps(meta, deps) == [meta EXCEPT !.factory_deps = deps]
Meta_custom_signature(meta, sig) == [meta EXCEPT !.custom_signature = sig]

Eip712TransactionRequest_new ==
    [type |-> EIP712_TX_TYPE,
     from |-> None,
     to |-> None,
     value |-> 0,
     data |-> <<>>,
     nonce |-> 0,
     gas_price |-> 0,
     gas_limit |-> 0,
     max_fee_per_gas |-> 0,
     max_priority_fee_per_gas |-> 0,
     chain_id |-> ERA_CHAIN_ID,
     custom_data |-> Eip712Meta_new]

\* The conversion of a request into the typed-data model that is signed:
\* MissingField without a destination or with all fee fields at their default.
TryIntoEip712Transaction(req) ==
    IF req.to = None
    THEN [ok |-> FALSE, err |-> "MissingField"]
    ELSE IF /\ req.max_fee_per_gas = 0
            /\ req.max_priority_fee_per_gas = 0
            /\ req.gas_limit = 0
    THEN [ok |-> FALSE, err |-> "MissingField"]
    ELSE [ok |-> TRUE,
          val |-> [tx_type |-> req.type,
                   from |-> req.from,
                   to |-> req.to,
                   gas_limit |-> req.gas_limit,
                   gas_per_pubdata_byte_limit |-> req.custom_data.gas_per_pubdata,
                   max_fee_per_gas |-> req.max_fee_per_gas,
                   max_priority_fee_per_gas |-> req.max_priority_fee_per_gas,
                   paymaster_params |-> req.custom_data.paymaster_params,
                   nonce |-> req.nonce,
                   value |-> req.value,
                   data |-> req.data,
                   factory_deps |-> req.custom_data.factory_deps,
                   chain_id |-> req.chain_id]]

\* The wire serializer's list of items, in the protocol's order (the chain id
\* twice around the two empty signature items, the custom data last).
RlpUnsigned(req) ==
    <<req.nonce,
      req.max_priority_fee_per_gas,
      req.max_fee_per_gas,
      req.gas_limit,
      req.to,
      req.value,
      req.data,
      req.chain_id,
      <<>>,
      <<>>,
      req.chain_id,
      req.from,
      req.custom_data.gas_per_pubdata,
      req.custom_data.factory_deps,
      req.custom_data.custom_signature,
      req.custom_data.paymaster_params>>

\* The paired decoder: the fields of wire bytes (tag, then the items).
RlpDecode(bytes) ==
    [type |-> bytes[1],
     nonce |-> bytes[2],
     max_priority_fee_per_gas |-> bytes[3],
     max_fee_per_gas |-> bytes[4],
     gas_limit |-> bytes[5],
     to |-> bytes[6],
     value |-> bytes[7],
     data |-> bytes[8],
     chain_id |-> bytes[9],
     from |-> bytes[13],
     gas_per_pubdata |-> bytes[14],
     factory_deps |-> bytes[15],
     custom_signature |-> bytes[16],
     paymaster_params |-> bytes[17]]

\* Signature::to_vec: r and s as 32-byte big-endian words, then v.
SignatureToVec(sig) == BCat(BCat(Word(sig.r), Word(sig.s)), Rep(sig.v, 1))

\* ------------------------------------------------------- bytecode and ABI

\* A stand-in for the 32-byte digest of a byte string.
RECURSIVE Checksum(_, _)
Checksum(b, h) ==
    IF b = <<>> THEN h
    ELSE Checksum(Tail(b), (h * 31 + b[1][1] * 7 + b[1][2]) % 65521)
Digest(b) == Word(Checksum(b, 17) + 1)

\* hash_bytecode: version byte, reserved byte, the word count in two
\* big-endian bytes, then bytes 4..31 of the digest.
HashBytecode(b) ==
    IF BLen(b) % 32 # 0
    THEN [ok |-> FALSE, err |-> "InvalidBytecodeLength"]
    ELSE IF BLen(b) \div 32 > 65535
    THEN [ok |-> FALSE, err |-> "BytecodeTooLong"]
    ELSE [ok |-> TRUE,
          val |-> BCat(BCat(BCat(BCat(Rep(1, 1), Rep(0, 1)),
                                 Rep((BLen(b) \div 32) \div 256, 1)),
                            Rep((BLen(b) \div 32) % 256, 1)),
                       BDrop(Digest(b), 4))]

\* ethers abi: the static tokens, one 32-byte word each.
RECURSIVE AbiEncode(_)
AbiEncode(tokens) ==
    IF tokens = <<>> THEN <<>>
    ELSE BCat(Word(tokens[1].val), AbiEncode(Tail(tokens)))

TypesCheck(inputs, tokens) ==
    /\ Len(inputs) = Len(tokens)
    /\ \A i \in 1..Len(inputs) : tokens[i].type = inputs[i]

\* Constructor::encode_input(code, tokens).
ConstructorEncodeInput(constructor, code, tokens) ==
    IF TypesCheck(constructor.inputs, tokens)
    THEN [ok |-> TRUE, val |-> BCat(code, AbiEncode(tokens))]
    ELSE [ok |-> FALSE, err |-> "Invalid data"]

\* The selector of create(bytes32,bytes32,bytes): 0x9c4d535b.
CreateSelector ==
    BCat(BCat(BCat(Rep(156, 1), Rep(77, 1)), Rep(83, 1)), Rep(91, 1))

\* encode_function_data(create, (salt, bytecode_hash, call_data)): selector,
\* the two bytes32, the offset of the dynamic bytes, their length, the bytes.
EncodeFunctionData(salt, bytecode_hash, call_data) ==
    IF BLen(salt) # 32 \/ BLen(bytecode_hash) # 32
    THEN [ok |-> FALSE, err |-> "AbiError"]
    ELSE [ok |-> TRUE,
          val |-> BCat(BCat(BCat(BCat(BCat(CreateSelector, salt), bytecode_hash),
                                 Word(96)),
                            Word(BLen(call_data))),
                       PadRight32(call_data))]

\* ------------------------------------------------------------------ inputs

CodeA == Rep(1, 32)
CodeB == BCat(Rep(2, 32), Rep(3, 32))
CodeMisaligned == Rep(1, 31)
CodeTooLong == Rep(4, 32 * 65536)
Bytecodes == {CodeA, CodeB, CodeMisaligned, CodeTooLong}

Dependencies == {NoneOpt, Some(<<CodeB>>), Some(<<CodeB, CodeA>>)}

Uint(n) == [type |-> "uint", val |-> n]
ParameterLists == {<<>>, <<Uint(5)>>, <<Uint(5), Uint(6)>>}

\* Abi::constructor() of the three contract ABIs deployed here.
Abis == {[constructor |-> NoneOpt],
         [constructor |-> Some([inputs |-> <<>>])],
         [constructor |-> Some([inputs |-> <<"uint">>])]}

\* ------------------------------------------------- collaborators' answers

ProviderError == Err("ProviderError")

GasPriceAnswers == {ProviderError} \cup {Ok(g) : g \in 1..MaxGasPrice}

FeeAnswers ==
    {ProviderError,
     Ok([max_fee_per_gas |-> 0, max_priority_fee_per_gas |-> 0, gas_limit |-> 0]),
     Ok([max_fee_per_gas |-> 100, max_priority_fee_per_gas |-> 10,
         gas_limit |-> 21000])}

SignerAnswers ==
    {Err("SigningError"),
     Ok([r |-> 1, s |-> 2, v |-> 27]),
     Ok([r |-> 3, s |-> 4, v |-> 28])}

SendAnswers == {ProviderError, Ok("pending")}

ReceiptAnswers(from, to) ==
    {ProviderError,
     Ok(NoneOpt),
     Ok(Some([from |-> from, to |-> to, contract_address |-> NoneOpt])),
     Ok(Some([from |-> from, to |-> to,
              contract_address |-> Some(DeployedAddress)]))}

\* The deployer ABI artifact at ./src/abi/ContractDeployer.json when it is read.
ArtifactStates == {"ok", "missing", "malformed", "no_create"}

\* ------------------------------------------------------------------- state

VARIABLES wallet, era_provider, eth_provider, era_nonce, run

vars == <<wallet, era_provider, eth_provider, era_nonce, run>>

Eip1559TransactionRequest_new ==
    [from |-> NoneOpt, to |-> NoneOpt, value |-> NoneOpt, chain_id |-> NoneOpt,
     max_priority_fee_per_gas |-> NoneOpt, max_fee_per_gas |-> NoneOpt]

IdleRun ==
    [pc |-> "idle",
     op |-> "none",
     to |-> None,
     amount_to_transfer |-> 0,
     contract_abi |-> [constructor |-> NoneOpt],
     contract_bytecode |-> <<>>,
     contract_dependencies |-> NoneOpt,
     constructor_parameters |-> <<>>,
     salt |-> NoneOpt,
     tx1559 |-> Eip1559TransactionRequest_new,
     request |-> Eip712TransactionRequest_new,
     custom_data |-> Eip712Meta_new,
     call_data |-> NoneOpt,
     fee |-> NoneOpt,
     conversion |-> NoneOpt,
     signature |-> NoneOpt,
     transaction_receipt |-> NoneOpt,
     calls |-> <<>>,
     result |-> Pending]

\* The provider a wallet is constructed with, and the ones connected later.
Providers == {"p0", "p1"}

\* Wallet::with_chain_id and Middleware::with_signer.
WithChainId(w, chain_id) == [w EXCEPT !.chain_id = chain_id]
WithSigner(provider, signer) == [provider |-> provider, signer |-> signer]

\* ZKSWallet::new
ZKSWallet_new(w, era, eth) ==
    [wallet |-> WithChainId(w, ERA_CHAIN_ID),
     era_provider |->
        IF era.some
        THEN Some(WithSigner(era.val, WithChainId(w, ERA_CHAIN_ID)))
        ELSE NoneOpt,
     eth_provider |->
        IF eth.some
        THEN Some(WithSigner(eth.val, WithChainId(w, ETH_CHAIN_ID)))
        ELSE NoneOpt]

\* The state after ZKSWallet::new(wallet, era, eth) for a local wallet of any
\* chain id and each provider given or not.
Init ==
    /\ \E chain_id \in {ETH_CHAIN_ID, ERA_CHAIN_ID}, era, eth \in {NoneOpt, Some("p0")} :
         LET self == ZKSWallet_new([address |-> WalletAddress, chain_id |-> chain_id],
                                   era, eth)
         IN  /\ wallet = self.wallet
             /\ era_provider = self.era_provider
             /\ eth_provider = self.eth_provider
    /\ era_nonce = 0
    /\ run = [r \in Runs |-> IdleRun]

address == wallet.address

InFlight == {q \in Runs : run[q].pc \notin {"idle", "done"}}

\* A new invocation may start on a run that is not in flight.
CanStart(r) ==
    /\ run[r].pc \in {"idle", "done"}
    /\ era_nonce + Cardinality(InFlight) < MaxNonce

\* The log of a run's calls to its collaborators: what was called, with what
\* argument, and what the collaborator answered.
Called(rr, name, arg, answer) ==
    Append(rr.calls, [name |-> name, arg |-> arg, answer |-> answer])

Finish(rr, res) == [rr EXCEPT !.pc = "done", !.result = res]

NoEraProvider == Err("no era provider")
NoReceipt == Err("no transaction receipt")
NoContractAddress == Err("no contract address")

\* ---------------------------------------------------------------- connect

\* The wallet is moved into connect_* (mut self): no operation that borrows it
\* is in flight.
CanConnect == InFlight = {}

\* Signers built by the caller for connect_eth_signer and connect_era_signer.
Signers ==
    {WithSigner("p1", [address |-> WalletAddress, chain_id |-> ETH_CHAIN_ID]),
     WithSigner("p1", [address |-> "0x0000000000000000000000000000000000000001",
                       chain_id |-> ERA_CHAIN_ID])}

connect_eth_provider ==
    /\ CanConnect
    /\ \E provider \in Providers :
         eth_provider' = Some(WithSigner(provider, wallet))
    /\ UNCHANGED <<wallet, era_provider, era_nonce, run>>

connect_era_provider ==
    /\ CanConnect
    /\ \E provider \in Providers :
         era_provider' = Some(WithSigner(provider, wallet))
    /\ UNCHANGED <<wallet, eth_provider, era_nonce, run>>

\* A mutant of connect_eth_signer: the signer goes into both slots.
connect_eth_signer_both ==
    /\ CanConnect
    /\ \E eth_signer \in Signers :
         /\ eth_provider' = Some(eth_signer)
         /\ era_provider' = Some(eth_signer)
    /\ UNCHANGED <<wallet, era_nonce, run>>

connect_eth_signer ==
    /\ CanConnect
    /\ \E eth_signer \in Signers : eth_provider' = Some(eth_signer)
    /\ UNCHANGED <<wallet, era_provider, era_nonce, run>>

connect_era_signer ==
    /\ CanConnect
    /\ \E era_signer \in Signers : era_provider' = Some(era_signer)
    /\ UNCHANGED <<wallet, eth_provider, era_nonce, run>>

\* ----------------------------------------------------------------- balance

BalanceAnswers == {ProviderError} \cup {Ok(b) : b \in 0..MaxAmount}

\* A mutant of eth_balance: the era slot decides whether the balance is
\* queried.
eth_balance_era_slot(r) ==
    /\ CanStart(r)
    /\ LET rr == [IdleRun EXCEPT !.op = "eth_balance"]
       IN  run' = [run EXCEPT ![r] =
              IF era_provider.some
              THEN [rr EXCEPT !.pc = "eth_balance_get_balance"]
              ELSE Finish(rr, NoEraProvider)]
    /\ UNCHANGED <<wallet, era_provider, eth_provider, era_nonce>>

\* eth_balance up to its await: the match on the eth provider slot.
eth_balance(r) ==
    /\ CanStart(r)
    /\ LET rr == [IdleRun EXCEPT !.op = "eth_balance"]
       IN  run' = [run EXCEPT ![r] =
              IF eth_provider.some
              THEN [rr EXCEPT !.pc = "eth_balance_get_balance"]
              ELSE Finish(rr, NoEraProvider)]
    /\ UNCHANGED <<wallet, era_provider, eth_provider, era_nonce>>

eth_balance_get_balance(r) ==
    /\ run[r].pc = "eth_balance_get_balance"
    /\ \E answer \in BalanceAnswers :
         run' = [run EXCEPT ![r] =
            Finish([run[r] EXCEPT !.calls =
                      Called(run[r], "get_balance",
                             [provider |-> "eth_provider", address |-> address],
                             answer)],
                   answer)]
    /\ UNCHANGED <<wallet, era_provider, eth_provider, era_nonce>>

\* era_balance up to its await: the match on the era provider slot.
era_balance(r) ==
    /\ CanStart(r)
    /\ LET rr == [IdleRun EXCEPT !.op = "era_balance"]
       IN  run' = [run EXCEPT ![r] =
              IF era_provider.some
              THEN [rr EXCEPT !.pc = "era_balance_get_balance"]
              ELSE Finish(rr, NoEraProvider)]
    /\ UNCHANGED <<wallet, era_provider, eth_provider, era_nonce>>

era_balance_get_balance(r) ==
    /\ run[r].pc = "era_balance_get_balance"
    /\ \E answer \in BalanceAnswers :
         run' = [run EXCEPT ![r] =
            Finish([run[r] EXCEPT !.calls =
                      Called(run[r], "get_balance",
                             [provider |-> "era_provider", address |-> address],
                             answer)],
                   answer)]
    /\ UNCHANGED <<wallet, era_provider, eth_provider, era_nonce>>

\* ---------------------------------------------------------------- transfer

Transfer_Request(from, to, amount_to_transfer) ==
    [Eip1559TransactionRequest_new EXCEPT !.from = Some(from),
                                          !.to = Some(to),
                                          !.value = Some(amount_to_transfer),
                                          !.chain_id = Some(ERA_CHAIN_ID)]

\* transfer up to its first await: the provider check and the request.
transfer(r) ==
    /\ CanStart(r)
    /\ \E to \in Receivers, amount_to_transfer \in 0..MaxAmount :
         LET rr == [IdleRun EXCEPT !.op = "transfer", !.to = to,
                                   !.amount_to_transfer = amount_to_transfer]
         IN  run' = [run EXCEPT ![r] =
                IF ~era_provider.some
                THEN Finish(rr, NoEraProvider)
                ELSE [rr EXCEPT
                        !.pc = "transfer_estimate_fee",
                        !.tx1559 = Transfer_Request(address, to,
                                                    amount_to_transfer)]]
    /\ UNCHANGED <<wallet, era_provider, eth_provider, era_nonce>>

Transfer_ApplyFee(tx, fee) ==
    [tx EXCEPT !.max_priority_fee_per_gas = Some(fee.max_priority_fee_per_gas),
               !.max_fee_per_gas = Some(fee.max_fee_per_gas)]

transfer_estimate_fee(r) ==
    /\ run[r].pc = "transfer_estimate_fee"
    /\ \E answer \in FeeAnswers :
         LET rr == [run[r] EXCEPT
                      !.calls = Called(run[r], "estimate_fee", run[r].tx1559, answer)]
         IN  run' = [run EXCEPT ![r] =
                IF answer.status = "Err"
                THEN Finish(rr, answer)
                ELSE [rr EXCEPT !.pc = "transfer_send_transaction",
                                !.fee = Some(answer.val),
                                !.tx1559 = Transfer_ApplyFee(rr.tx1559, answer.val)]]
    /\ UNCHANGED <<wallet, era_provider, eth_provider, era_nonce>>

transfer_send_transaction(r) ==
    /\ run[r].pc = "transfer_send_transaction"
    /\ \E answer \in SendAnswers :
         LET rr == [run[r] EXCEPT
                      !.calls = Called(run[r], "send_transaction", run[r].tx1559, answer)]
         IN  IF answer.status = "Err"
             THEN /\ run' = [run EXCEPT ![r] = Finish(rr, answer)]
                  /\ UNCHANGED era_nonce
             ELSE /\ run' = [run EXCEPT ![r] =
                               [rr EXCEPT !.pc = "transfer_pending_transaction"]]
                  /\ era_nonce' = era_nonce + 1
    /\ UNCHANGED <<wallet, era_provider, eth_provider>>

\* pending_transaction.await?.ok_or("no transaction receipt")
ReceiptResult(answer) ==
    IF answer.status = "Err" THEN answer
    ELSE IF ~answer.val.some THEN NoReceipt
    ELSE Ok(answer.val.val)

ReceiptOf(answer) == IF answer.status = "Ok" THEN answer.val ELSE NoneOpt

transfer_pending_transaction(r) ==
    /\ run[r].pc = "transfer_pending_transaction"
    /\ \E answer \in ReceiptAnswers(run[r].tx1559.from.val, run[r].tx1559.to.val) :
         LET rr == [run[r] EXCEPT
                      !.calls = Called(run[r], "pending_transaction", "pending", answer)]
         IN  run' = [run EXCEPT ![r] =
                Finish([rr EXCEPT !.transaction_receipt = ReceiptOf(answer)],
                       ReceiptResult(answer))]
    /\ UNCHANGED <<wallet, era_provider, eth_provider, era_nonce>>

\* --------------------------------------------------------- transfer_eip712

\* A mutant of TransferEip712_Request: the sender where the receiver belongs.
TransferEip712_Request_ToSelf(from, to, amount_to_transfer) ==
    [Eip712TransactionRequest_new EXCEPT !.from = from,
                                         !.to = from,
                                         !.value = amount_to_transfer]

TransferEip712_Request(from, to, amount_to_transfer) ==
    [Eip712TransactionRequest_new EXCEPT !.from = from,
                                         !.to = to,
                                         !.value = amount_to_transfer]

\* transfer_eip712 up to its first await.
transfer_eip712(r) ==
    /\ CanStart(r)
    /\ \E to \in Receivers, amount_to_transfer \in 0..MaxAmount :
         LET rr == [IdleRun EXCEPT !.op = "transfer_eip712", !.to = to,
                                   !.amount_to_transfer = amount_to_transfer]
         IN  run' = [run EXCEPT ![r] =
                IF ~era_provider.some
                THEN Finish(rr, NoEraProvider)
                ELSE [rr EXCEPT
                        !.pc = "transfer_eip712_get_transaction_count",
                        !.request = TransferEip712_Request(address, to,
                                                           amount_to_transfer)]]
    /\ UNCHANGED <<wallet, era_provider, eth_provider, era_nonce>>

\* A mutant of transfer_eip712_get_transaction_count: the fee is estimated
\* right after the nonce and the gas price asked for afterwards.
transfer_eip712_get_transaction_count_then_fee(r) ==
    /\ run[r].pc = "transfer_eip712_get_transaction_count"
    /\ \E answer \in {ProviderError, Ok(era_nonce)}, fee \in FeeAnswers :
         LET rr == [run[r] EXCEPT
                      !.calls = Called(run[r], "get_transaction_count", address, answer)]
         IN  run' = [run EXCEPT ![r] =
                IF answer.status = "Err"
                THEN Finish(rr, answer)
                ELSE [rr EXCEPT !.pc = "transfer_eip712_get_gas_price",
                                !.request.nonce = answer.val,
                                !.calls = Called(rr, "estimate_fee",
                                                 rr.request, fee)]]
    /\ UNCHANGED <<wallet, era_provider, eth_provider, era_nonce>>

transfer_eip712_get_transaction_count(r) ==
    /\ run[r].pc = "transfer_eip712_get_transaction_count"
    /\ \E answer \in {ProviderError, Ok(era_nonce)} :
         LET rr == [run[r] EXCEPT
                      !.calls = Called(run[r], "get_transaction_count", address, answer)]
         IN  run' = [run EXCEPT ![r] =
                IF answer.status = "Err"
                THEN Finish(rr, answer)
                ELSE [rr EXCEPT !.pc = "transfer_eip712_get_gas_price",
                                !.request.nonce = answer.val]]
    /\ UNCHANGED <<wallet, era_provider, eth_provider, era_nonce>>

\* A mutant of transfer_eip712_get_gas_price: a failed query is made again.
transfer_eip712_get_gas_price_retry(r) ==
    /\ run[r].pc = "transfer_eip712_get_gas_price"
    /\ \E answer \in GasPriceAnswers :
         LET rr == [run[r] EXCEPT
                      !.calls = Called(run[r], "get_gas_price", "latest", answer)]
         IN  run' = [run EXCEPT ![r] =
                IF answer.status = "Err"
                THEN IF Len(run[r].calls) < 2 THEN rr ELSE Finish(rr, answer)
                ELSE [rr EXCEPT !.pc = "transfer_eip712_estimate_fee",
                                !.request.gas_price = answer.val]]
    /\ UNCHANGED <<wallet, era_provider, eth_provider, era_nonce>>

transfer_eip712_get_gas_price(r) ==
    /\ run[r].pc = "transfer_eip712_get_gas_price"
    /\ \E answer \in GasPriceAnswers :
         LET rr == [run[r] EXCEPT
                      !.calls = Called(run[r], "get_gas_price", "latest", answer)]
         IN  run' = [run EXCEPT ![r] =
                IF answer.status = "Err"
                THEN Finish(rr, answer)
                ELSE [rr EXCEPT !.pc = "transfer_eip712_estimate_fee",
                                !.request.gas_price = answer.val]]
    /\ UNCHANGED <<wallet, era_provider, eth_provider, era_nonce>>

TransferEip712_ApplyFee(request, fee) ==
    [request EXCEPT !.max_priority_fee_per_gas = fee.max_priority_fee_per_gas,
                    !.max_fee_per_gas = fee.max_fee_per_gas,
                    !.gas_limit = fee.gas_limit]

\* A mutant of transfer_eip712_estimate_fee: a failed conversion falls back to
\* the typed data of the request with a minimal gas limit.
transfer_eip712_estimate_fee_unchecked(r) ==
    /\ run[r].pc = "transfer_eip712_estimate_fee"
    /\ \E answer \in FeeAnswers :
         LET rr == [run[r] EXCEPT
                      !.calls = Called(run[r], "estimate_fee", run[r].request, answer)]
         IN  run' = [run EXCEPT ![r] =
                IF answer.status = "Err"
                THEN Finish(rr, answer)
                ELSE LET request == [rr.request EXCEPT
                            !.max_priority_fee_per_gas =
                                answer.val.max_priority_fee_per_gas,
                            !.max_fee_per_gas = answer.val.max_fee_per_gas,
                            !.gas_limit = answer.val.gas_limit]
                         converted == TryIntoEip712Transaction(request)
                         signable_data ==
                            IF converted.ok THEN converted
                            ELSE TryIntoEip712Transaction(
                                    [request EXCEPT !.gas_limit = 1])
                     IN  [rr EXCEPT !.pc = "transfer_eip712_sign_typed_data",
                                    !.fee = Some(answer.val),
                                    !.request = request,
                                    !.conversion = Some([request |-> request,
                                                         result |-> signable_data])]]
    /\ UNCHANGED <<wallet, era_provider, eth_provider, era_nonce>>

\* estimate_fee, the fee applied, and the conversion into the signable form.
transfer_eip712_estimate_fee(r) ==
    /\ run[r].pc = "transfer_eip712_estimate_fee"
    /\ \E answer \in FeeAnswers :
         LET rr == [run[r] EXCEPT
                      !.calls = Called(run[r], "estimate_fee", run[r].request, answer)]
         IN  run' = [run EXCEPT ![r] =
                IF answer.status = "Err"
                THEN Finish(rr, answer)
                ELSE LET request == TransferEip712_ApplyFee(rr.request, answer.val)
                         signable_data == TryIntoEip712Transaction(request)
                         conversion == [request |-> request,
                                        result |-> signable_data]
                     IN  IF ~signable_data.ok
                         THEN Finish([rr EXCEPT !.fee = Some(answer.val),
                                                !.request = request,
                                                !.conversion = Some(conversion)],
                                     Err(signable_data.err))
                         ELSE [rr EXCEPT !.pc = "transfer_eip712_sign_typed_data",
                                         !.fee = Some(answer.val),
                                         !.request = request,
                                         !.conversion = Some(conversion)]]
    /\ UNCHANGED <<wallet, era_provider, eth_provider, era_nonce>>

TransferEip712_AttachSignature(request, signature) ==
    [request EXCEPT !.custom_data =
        Meta_custom_signature(Eip712Meta_new, SignatureToVec(signature))]

transfer_eip712_sign_typed_data(r) ==
    /\ run[r].pc = "transfer_eip712_sign_typed_data"
    /\ \E answer \in SignerAnswers :
         LET rr == [run[r] EXCEPT
                      !.calls = Called(run[r], "sign_typed_data",
                                       run[r].conversion.val.result.val, answer)]
         IN  run' = [run EXCEPT ![r] =
                IF answer.status = "Err"
                THEN Finish(rr, answer)
                ELSE [rr EXCEPT !.pc = "transfer_eip712_send_raw_transaction",
                                !.signature = Some(answer.val),
                                !.request = TransferEip712_AttachSignature(
                                               rr.request, answer.val)]]
    /\ UNCHANGED <<wallet, era_provider, eth_provider, era_nonce>>

\* A mutant of RawTransaction: the encoding alone, without the type byte.
RawTransaction_Untagged(request) == RlpUnsigned(request)

\* [&[EIP712_TX_TYPE], &*request.rlp_unsigned()].concat()
RawTransaction(request) == <<EIP712_TX_TYPE>> \o RlpUnsigned(request)

transfer_eip712_send_raw_transaction(r) ==
    /\ run[r].pc = "transfer_eip712_send_raw_transaction"
    /\ \E answer \in SendAnswers :
         LET rr == [run[r] EXCEPT
                      !.calls = Called(run[r], "send_raw_transaction",
                                       RawTransaction(run[r].request), answer)]
         IN  IF answer.status = "Err"
             THEN /\ run' = [run EXCEPT ![r] = Finish(rr, answer)]
                  /\ UNCHANGED era_nonce
             ELSE /\ run' = [run EXCEPT ![r] =
                               [rr EXCEPT !.pc = "transfer_eip712_pending_transaction"]]
                  /\ era_nonce' = era_nonce + 1
    /\ UNCHANGED <<wallet, era_provider, eth_provider>>

transfer_eip712_pending_transaction(r) ==
    /\ run[r].pc = "transfer_eip712_pending_transaction"
    /\ \E answer \in ReceiptAnswers(run[r].request.from, run[r].request.to) :
         LET rr == [run[r] EXCEPT
                      !.calls = Called(run[r], "pending_transaction", "pending", answer)]
         IN  run' = [run EXCEPT ![r] =
                Finish([rr EXCEPT !.transaction_receipt = ReceiptOf(answer)],
                       ReceiptResult(answer))]
    /\ UNCHANGED <<wallet, era_provider, eth_provider, era_nonce>>

\* ------------------------------------------- deploy, deploy_with_receipt

\* A mutant of Deploy_CustomData: the dependencies go in front of the
\* contract's bytecode.
Deploy_CustomData_DepsFirst(contract_bytecode, contract_dependencies) ==
    Meta_factory_deps(Eip712Meta_new,
        IF contract_dependencies.some
        THEN contract_dependencies.val \o <<contract_bytecode>>
        ELSE <<contract_bytecode>>)

\* The factory deps of _deploy: the contract's bytecode, then the dependencies.
Deploy_CustomData(contract_bytecode, contract_dependencies) ==
    Meta_factory_deps(Eip712Meta_new,
        IF contract_dependencies.some
        THEN <<contract_bytecode>> \o contract_dependencies.val
        ELSE <<contract_bytecode>>)

\* _deploy up to its first await: the provider check, the custom data and
\* the request with type, from, to and chain id.
Deploy_Entry(rr) ==
    IF ~era_provider.some
    THEN Finish(rr, NoEraProvider)
    ELSE LET to == AddressFromStr(CONTRACT_DEPLOYER_ADDR)
         IN  IF ~to.ok
             THEN Finish(rr, Err(to.err))
             ELSE [rr EXCEPT
                     !.pc = "deploy_get_transaction_count",
                     !.custom_data = Deploy_CustomData(rr.contract_bytecode,
                                                       rr.contract_dependencies),
                     !.request = [Eip712TransactionRequest_new EXCEPT
                                    !.type = EIP712_TX_TYPE,
                                    !.from = address,
                                    !.to = to.val,
                                    !.chain_id = ERA_CHAIN_ID]]

\* The salt a caller wants for the deployed contract, if any. Neither deploy
\* nor deploy_with_receipt has a parameter for it: the run only remembers it.
CallerSalts == {NoneOpt, Some(Rep(7, 32))}

\* An invocation of _deploy with its arguments (abi, bytecode, deps, params).
Deploy_Invocation(op, abi, code, deps, params) ==
    [IdleRun EXCEPT !.op = op,
                    !.contract_abi = abi,
                    !.contract_bytecode = code,
                    !.contract_dependencies = deps,
                    !.constructor_parameters = params]

deploy(r) ==
    /\ CanStart(r)
    /\ \E contract_abi \in Abis, contract_bytecode \in Bytecodes,
          contract_dependencies \in Dependencies,
          constructor_parameters \in ParameterLists, salt \in CallerSalts :
         run' = [run EXCEPT ![r] =
            Deploy_Entry([Deploy_Invocation("deploy", contract_abi,
                contract_bytecode, contract_dependencies, constructor_parameters)
                    EXCEPT !.salt = salt])]
    /\ UNCHANGED <<wallet, era_provider, eth_provider, era_nonce>>

deploy_with_receipt(r) ==
    /\ CanStart(r)
    /\ \E contract_abi \in Abis, contract_bytecode \in Bytecodes,
          contract_dependencies \in Dependencies,
          constructor_parameters \in ParameterLists, salt \in CallerSalts :
         run' = [run EXCEPT ![r] =
            Deploy_Entry([Deploy_Invocation("deploy_with_receipt", contract_abi,
                contract_bytecode, contract_dependencies, constructor_parameters)
                    EXCEPT !.salt = salt])]
    /\ UNCHANGED <<wallet, era_provider, eth_provider, era_nonce>>

\* A mutant of Deploy_Return: a receipt without a contract address yields the
\* receipt's destination as the address.
Deploy_Return_Destination(op, res) ==
    IF res.status # "Ok" THEN res
    ELSE LET contract_address ==
                 IF res.val.contract_address.some
                 THEN res.val.contract_address.val
                 ELSE res.val.to
         IN  IF op = "deploy" THEN Ok(contract_address)
             ELSE Ok([contract_address |-> contract_address,
                      transaction_receipt |-> res.val])

\* What deploy and deploy_with_receipt make of _deploy's result.
Deploy_Return(op, res) ==
    IF res.status # "Ok" THEN res
    ELSE IF ~res.val.contract_address.some THEN NoContractAddress
    ELSE IF op = "deploy" THEN Ok(res.val.contract_address.val)
    ELSE Ok([contract_address |-> res.val.contract_address.val,
             transaction_receipt |-> res.val])

Deploy_Finish(rr, res) == Finish(rr, Deploy_Return(rr.op, res))

\* A mutant of deploy_get_transaction_count: the answer is awaited and
\* dropped, the request keeps its default nonce.
deploy_get_transaction_count_unset(r) ==
    /\ run[r].pc = "deploy_get_transaction_count"
    /\ \E answer \in {ProviderError, Ok(era_nonce)} :
         LET rr == [run[r] EXCEPT
                      !.calls = Called(run[r], "get_transaction_count", address, answer)]
         IN  run' = [run EXCEPT ![r] =
                IF answer.status = "Err"
                THEN Deploy_Finish(rr, answer)
                ELSE [rr EXCEPT !.pc = "deploy_get_gas_price"]]
    /\ UNCHANGED <<wallet, era_provider, eth_provider, era_nonce>>

deploy_get_transaction_count(r) ==
    /\ run[r].pc = "deploy_get_transaction_count"
    /\ \E answer \in {ProviderError, Ok(era_nonce)} :
         LET rr == [run[r] EXCEPT
                      !.calls = Called(run[r], "get_transaction_count", address, answer)]
         IN  run' = [run EXCEPT ![r] =
                IF answer.status = "Err"
                THEN Deploy_Finish(rr, answer)
                ELSE [rr EXCEPT !.pc = "deploy_get_gas_price",
                                !.request.nonce = answer.val]]
    /\ UNCHANGED <<wallet, era_provider, eth_provider, era_nonce>>

\* A mutant of Deploy_CallData: parameters for a contract without a
\* constructor are dropped instead of rejected.
Deploy_CallData_Lenient(contract_abi, contract_bytecode, constructor_parameters) ==
    IF ~contract_abi.constructor.some
    THEN Ok(contract_bytecode)
    ELSE LET encoded == ConstructorEncodeInput(contract_abi.constructor.val,
                                               contract_bytecode,
                                               constructor_parameters)
         IN  IF encoded.ok THEN Ok(encoded.val) ELSE Err(encoded.err)

\* A mutant of Deploy_CallData: the encoded parameters alone, without the
\* bytecode in front.
Deploy_CallData_NoCode(contract_abi, contract_bytecode, constructor_parameters) ==
    IF ~contract_abi.constructor.some
    THEN IF constructor_parameters # <<>>
         THEN Err("ConstructorError")
         ELSE Ok(contract_bytecode)
    ELSE LET encoded == ConstructorEncodeInput(contract_abi.constructor.val,
                                               <<>>, constructor_parameters)
         IN  IF encoded.ok THEN Ok(encoded.val) ELSE Err(encoded.err)

\* The constructor call data: the match on (constructor, no parameters).
Deploy_CallData(contract_abi, contract_bytecode, constructor_parameters) ==
    IF ~contract_abi.constructor.some
    THEN IF constructor_parameters # <<>>
         THEN Err("ConstructorError")
         ELSE Ok(contract_bytecode)
    ELSE LET encoded == ConstructorEncodeInput(contract_abi.constructor.val,
                                               contract_bytecode,
                                               constructor_parameters)
         IN  IF encoded.ok THEN Ok(encoded.val) ELSE Err(encoded.err)

Salt == Rep(0, 32)

\* A mutant of Deploy_Data: the bytecode hash and the salt change places in
\* the arguments of create.
Deploy_Data_ArgsSwapped(artifact, contract_abi, contract_bytecode, constructor_parameters) ==
    IF artifact = "missing" THEN Panic("File::open: unwrap on Err")
    ELSE IF artifact = "malformed" THEN Panic("Abi::load: unwrap on Err")
    ELSE IF artifact = "no_create" THEN Panic("function(create): unwrap on Err")
    ELSE LET bytecode_hash == HashBytecode(contract_bytecode)
             call_data == Deploy_CallData(contract_abi, contract_bytecode,
                                          constructor_parameters)
         IN  IF ~bytecode_hash.ok THEN Err(bytecode_hash.err)
             ELSE IF call_data.status = "Err" THEN call_data
             ELSE LET data == EncodeFunctionData(bytecode_hash.val, Rep(0, 32),
                                                 call_data.val)
                  IN  IF data.ok THEN Ok(data.val) ELSE Err(data.err)

\* The block that computes the request's data: the deployer ABI artifact is
\* read, then the salt, the bytecode hash, the call data and the create call.
Deploy_Data(artifact, contract_abi, contract_bytecode, constructor_parameters) ==
    IF artifact = "missing" THEN Panic("File::open: unwrap on Err")
    ELSE IF artifact = "malformed" THEN Panic("Abi::load: unwrap on Err")
    ELSE IF artifact = "no_create" THEN Panic("function(create): unwrap on Err")
    ELSE LET bytecode_hash == HashBytecode(contract_bytecode)
             call_data == Deploy_CallData(contract_abi, contract_bytecode,
                                          constructor_parameters)
         IN  IF ~bytecode_hash.ok THEN Err(bytecode_hash.err)
             ELSE IF call_data.status = "Err" THEN call_data
             ELSE LET data == EncodeFunctionData(Salt, bytecode_hash.val,
                                                 call_data.val)
                  IN  IF data.ok THEN Ok(data.val) ELSE Err(data.err)

\* get_gas_price, then the data block and the custom data set on the request.
deploy_get_gas_price(r) ==
    /\ run[r].pc = "deploy_get_gas_price"
    /\ \E answer \in GasPriceAnswers, artifact \in ArtifactStates :
         LET rr == [run[r] EXCEPT
                      !.calls = Called(run[r], "get_gas_price", "latest", answer)]
             data == Deploy_Data(artifact, rr.contract_abi, rr.contract_bytecode,
                                 rr.constructor_parameters)
             call_data == Deploy_CallData(rr.contract_abi, rr.contract_bytecode,
                                          rr.constructor_parameters)
         IN  run' = [run EXCEPT ![r] =
                IF answer.status = "Err"
                THEN Deploy_Finish(rr, answer)
                ELSE IF data.status # "Ok"
                THEN Deploy_Finish(rr, data)
                ELSE [rr EXCEPT !.pc = "deploy_estimate_fee",
                                !.call_data = Some(call_data.val),
                                !.request.gas_price = answer.val,
                                !.request.data = data.val,
                                !.request.custom_data = rr.custom_data]]
    /\ UNCHANGED <<wallet, era_provider, eth_provider, era_nonce>>

\* A mutant of Deploy_ApplyFee: the gas limit is left as it was.
Deploy_ApplyFee_NoGasLimit(request, fee) ==
    [request EXCEPT !.max_priority_fee_per_gas = fee.max_priority_fee_per_gas,
                    !.max_fee_per_gas = fee.max_fee_per_gas]

Deploy_ApplyFee(request, fee) ==
    [request EXCEPT !.max_priority_fee_per_gas = fee.max_priority_fee_per_gas,
                    !.max_fee_per_gas = fee.max_fee_per_gas,
                    !.gas_limit = fee.gas_limit]

deploy_estimate_fee(r) ==
    /\ run[r].pc = "deploy_estimate_fee"
    /\ \E answer \in FeeAnswers :
         LET rr == [run[r] EXCEPT
                      !.calls = Called(run[r], "estimate_fee", run[r].request, answer)]
         IN  run' = [run EXCEPT ![r] =
                IF answer.status = "Err"
                THEN Deploy_Finish(rr, answer)
                ELSE LET request == Deploy_ApplyFee(rr.request, answer.val)
                         signable_data == TryIntoEip712Transaction(request)
                         conversion == [request |-> request,
                                        result |-> signable_data]
                     IN  IF ~signable_data.ok
                         THEN Deploy_Finish([rr EXCEPT !.fee = Some(answer.val),
                                                       !.request = request,
                                                       !.conversion = Some(conversion)],
                                            Err(signable_data.err))
                         ELSE [rr EXCEPT !.pc = "deploy_sign_typed_data",
                                         !.fee = Some(answer.val),
                                         !.request = request,
                                         !.conversion = Some(conversion)]]
    /\ UNCHANGED <<wallet, era_provider, eth_provider, era_nonce>>

\* A mutant of Deploy_AttachSignature: the signature on fresh custom data, as
\* transfer_eip712 attaches it, which drops the factory deps.
Deploy_AttachSignature_FreshMeta(request, custom_data, signature) ==
    [request EXCEPT !.custom_data =
        Meta_custom_signature(Eip712Meta_new, SignatureToVec(signature))]

Deploy_AttachSignature(request, custom_data, signature) ==
    [request EXCEPT !.custom_data =
        Meta_custom_signature(custom_data, SignatureToVec(signature))]

\* A mutant of deploy_sign_typed_data: a signer's failure is swallowed and the
\* request goes on to submission without a signature.
deploy_sign_typed_data_swallow(r) ==
    /\ run[r].pc = "deploy_sign_typed_data"
    /\ \E answer \in SignerAnswers :
         LET rr == [run[r] EXCEPT
                      !.calls = Called(run[r], "sign_typed_data",
                                       run[r].conversion.val.result.val, answer)]
         IN  run' = [run EXCEPT ![r] =
                IF answer.status = "Err"
                THEN [rr EXCEPT !.pc = "deploy_send_raw_transaction"]
                ELSE [rr EXCEPT !.pc = "deploy_send_raw_transaction",
                                !.signature = Some(answer.val),
                                !.request = Deploy_AttachSignature(
                                               rr.request, rr.custom_data,
                                               answer.val)]]
    /\ UNCHANGED <<wallet, era_provider, eth_provider, era_nonce>>

deploy_sign_typed_data(r) ==
    /\ run[r].pc = "deploy_sign_typed_data"
    /\ \E answer \in SignerAnswers :
         LET rr == [run[r] EXCEPT
                      !.calls = Called(run[r], "sign_typed_data",
                                       run[r].conversion.val.result.val, answer)]
         IN  run' = [run EXCEPT ![r] =
                IF answer.status = "Err"
                THEN Deploy_Finish(rr, answer)
                ELSE [rr EXCEPT !.pc = "deploy_send_raw_transaction",
                                !.signature = Some(answer.val),
                                !.request = Deploy_AttachSignature(
                                               rr.request, rr.custom_data,
                                               answer.val)]]
    /\ UNCHANGED <<wallet, era_provider, eth_provider, era_nonce>>

deploy_send_raw_transaction(r) ==
    /\ run[r].pc = "deploy_send_raw_transaction"
    /\ \E answer \in SendAnswers :
         LET rr == [run[r] EXCEPT
                      !.calls = Called(run[r], "send_raw_transaction",
                                       RawTransaction(run[r].request), answer)]
         IN  IF answer.status = "Err"
             THEN /\ run' = [run EXCEPT ![r] = Deploy_Finish(rr, answer)]
                  /\ UNCHANGED era_nonce
             ELSE /\ run' = [run EXCEPT ![r] =
                               [rr EXCEPT !.pc = "deploy_pending_transaction"]]
                  /\ era_nonce' = era_nonce + 1
    /\ UNCHANGED <<wallet, era_provider, eth_provider>>

deploy_pending_transaction(r) ==
    /\ run[r].pc = "deploy_pending_transaction"
    /\ \E answer \in ReceiptAnswers(run[r].request.from, run[r].request.to) :
         LET rr == [run[r] EXCEPT
                      !.calls = Called(run[r], "pending_transaction", "pending", answer)]
         IN  run' = [run EXCEPT ![r] =
                Deploy_Finish([rr EXCEPT !.transaction_receipt = ReceiptOf(answer)],
                              ReceiptResult(answer))]
    /\ UNCHANGED <<wallet, era_provider, eth_provider, era_nonce>>

\* ----------------------------------------------------------- specification

Step(r) ==
    \/ eth_balance(r)
    \/ eth_balance_get_balance(r)
    \/ era_balance(r)
    \/ era_balance_get_balance(r)
    \/ transfer(r)
    \/ transfer_estimate_fee(r)
    \/ transfer_send_transaction(r)
    \/ transfer_pending_transaction(r)
    \/ transfer_eip712(r)
    \/ transfer_eip712_get_transaction_count(r)
    \/ transfer_eip712_get_gas_price(r)
    \/ transfer_eip712_estimate_fee(r)
    \/ transfer_eip712_sign_typed_data(r)
    \/ transfer_eip712_send_raw_transaction(r)
    \/ transfer_eip712_pending_transaction(r)
    \/ deploy(r)
    \/ deploy_with_receipt(r)
    \/ deploy_get_transaction_count(r)
    \/ deploy_get_gas_price(r)
    \/ deploy_estimate_fee(r)
    \/ deploy_sign_typed_data(r)
    \/ deploy_send_raw_transaction(r)
    \/ deploy_pending_transaction(r)

\* One invocation at a time.
Next == Step(1)

Spec == Init /\ [][Next]_vars

\* One transfer_eip712 and one deploy, each with one choice of arguments: the
\* invocations of the specifications below, which vary the wallet's providers
\* or interleave two invocations rather than the arguments.
transfer_eip712_one(r) ==
    /\ transfer_eip712(r)
    /\ run'[r].to = "0xa61464658AfeAf65CccaaFD3a512b69A83B77618"
    /\ run'[r].amount_to_transfer = 1

deploy_one(r) ==
    /\ deploy(r)
    /\ run'[r].contract_abi = [constructor |-> NoneOpt]
    /\ run'[r].contract_bytecode = CodeA
    /\ run'[r].contract_dependencies = NoneOpt
    /\ run'[r].constructor_parameters = <<>>
    /\ run'[r].salt = NoneOpt

\* Two invocations of transfer_eip712 and/or deploy on the same wallet and
\* provider, their awaits interleaved in any order.
StepConc(r) ==
    \/ transfer_eip712_one(r)
    \/ transfer_eip712_get_transaction_count(r)
    \/ transfer_eip712_get_gas_price(r)
    \/ transfer_eip712_estimate_fee(r)
    \/ transfer_eip712_sign_typed_data(r)
    \/ transfer_eip712_send_raw_transaction(r)
    \/ transfer_eip712_pending_transaction(r)
    \/ deploy_one(r)
    \/ deploy_get_transaction_count(r)
    \/ deploy_get_gas_price(r)
    \/ deploy_estimate_fee(r)
    \/ deploy_sign_typed_data(r)
    \/ deploy_send_raw_transaction(r)
    \/ deploy_pending_transaction(r)

NextConc == \E r \in Runs : StepConc(r)

SpecConc == Init /\ [][NextConc]_vars

\* The operations of a wallet whose providers are being connected.
StepWallet(r) ==
    \/ eth_balance(r)
    \/ eth_balance_get_balance(r)
    \/ era_balance(r)
    \/ era_balance_get_balance(r)
    \/ transfer(r)
    \/ transfer_estimate_fee(r)
    \/ transfer_send_transaction(r)
    \/ transfer_pending_transaction(r)
    \/ transfer_eip712_one(r)
    \/ transfer_eip712_get_transaction_count(r)
    \/ transfer_eip712_get_gas_price(r)
    \/ transfer_eip712_estimate_fee(r)
    \/ transfer_eip712_sign_typed_data(r)
    \/ transfer_eip712_send_raw_transaction(r)
    \/ transfer_eip712_pending_transaction(r)
    \/ deploy_one(r)
    \/ deploy_get_transaction_count(r)
    \/ deploy_get_gas_price(r)
    \/ deploy_estimate_fee(r)
    \/ deploy_sign_typed_data(r)
    \/ deploy_send_raw_transaction(r)
    \/ deploy_pending_transaction(r)

\* new, then connect_eth_provider and connect_era_provider in any sequence,
\* with the wallet's operations in between.
NextProviders ==
    \/ connect_eth_provider
    \/ connect_era_provider
    \/ StepWallet(1)

SpecProviders == Init /\ [][NextProviders]_vars

\* new, then the four connect operations in any sequence, with the wallet's
\* operations in between.
NextWallet ==
    \/ connect_eth_provider
    \/ connect_era_provider
    \/ connect_eth_signer
    \/ connect_era_signer
    \/ StepWallet(1)

SpecWallet == Init /\ [][NextWallet]_vars

\* ------------------------------------------------------------------ claims

Eip712Ops == {"transfer_eip712", "deploy", "deploy_with_receipt"}
DeployOps == {"deploy", "deploy_with_receipt"}

\* The calls of a run to the collaborator operation `name`.
CallsOf(rr, name) ==
    {rr.calls[i] : i \in {j \in 1..Len(rr.calls) : rr.calls[j].name = name}}

HasCall(rr, name) == \E i \in 1..Len(rr.calls) : rr.calls[i].name = name

\* C1: in transfer_eip712 and _deploy the bytes passed to send_raw_transaction
\* decode to the signed fields exactly as they were in the request that was
\* converted and in the typed data handed to the signer; the submitted bytes
\* are the serialization of the converted request with nothing but
\* customSignature changed.
C1_SignedFieldsNotMutated ==
    \A r \in Runs : run[r].op \in Eip712Ops =>
        \A c \in CallsOf(run[r], "send_raw_transaction") :
            /\ run[r].conversion.some
            /\ run[r].conversion.val.result.ok
            /\ LET sent == RlpDecode(c.arg)
                   converted == run[r].conversion.val.request
               IN  /\ \A s \in CallsOf(run[r], "sign_typed_data") :
                         /\ sent.from = s.arg.from
                         /\ sent.to = s.arg.to
                         /\ sent.value = s.arg.value
                         /\ sent.data = s.arg.data
                         /\ sent.nonce = s.arg.nonce
                         /\ sent.gas_limit = s.arg.gas_limit
                         /\ sent.max_fee_per_gas = s.arg.max_fee_per_gas
                         /\ sent.max_priority_fee_per_gas =
                                s.arg.max_priority_fee_per_gas
                         /\ sent.chain_id = s.arg.chain_id
                         /\ sent.gas_per_pubdata = s.arg.gas_per_pubdata_byte_limit
                         /\ sent.factory_deps = s.arg.factory_deps
                         /\ sent.paymaster_params = s.arg.paymaster_params
                   /\ HasCall(run[r], "sign_typed_data")
                   /\ sent.custom_signature # converted.custom_data.custom_signature
                   /\ c.arg = RawTransaction(
                         [converted EXCEPT !.custom_data.custom_signature =
                                              sent.custom_signature])

C1_Witness ==
    \E r \in Runs :
        /\ run[r].op = "deploy"
        /\ run[r].contract_dependencies.some
        /\ HasCall(run[r], "send_raw_transaction")

StepsBeforeSubmission ==
    {"get_transaction_count", "get_gas_price", "estimate_fee", "sign_typed_data"}

\* A step of the orchestration before the submission has failed: one of the
\* four collaborator calls answered an error, or the conversion failed.
StepFailed(rr) ==
    \/ \E i \in 1..Len(rr.calls) :
          /\ rr.calls[i].name \in StepsBeforeSubmission
          /\ rr.calls[i].answer.status = "Err"
    \/ rr.conversion.some /\ ~rr.conversion.val.result.ok

\* C2: when the nonce query, the gas-price query, the fee estimation, the
\* conversion or the signing of transfer_eip712 or _deploy fails, the run is
\* over with an error and send_raw_transaction was not called in it.
C2_AllOrNothing ==
    \A r \in Runs : (run[r].op \in Eip712Ops /\ StepFailed(run[r])) =>
        /\ run[r].pc = "done"
        /\ run[r].result.status = "Err"
        /\ ~HasCall(run[r], "send_raw_transaction")

C2_Witness ==
    \E r \in Runs :
        /\ run[r].op = "deploy"
        /\ \E c \in CallsOf(run[r], "sign_typed_data") : c.answer.status = "Err"
        /\ run[r].result.status = "Err"

Eip712Order ==
    <<"get_transaction_count", "get_gas_price", "estimate_fee",
      "sign_typed_data", "send_raw_transaction", "pending_transaction">>

\* C3: the calls of a run of transfer_eip712 or _deploy are a prefix of: nonce
\* query, gas-price query, fee estimation, signing, raw submission, receipt
\* await; the typed data given to the signer carries the fee the estimator
\* answered before, and the bytes given to send_raw_transaction carry as
\* customSignature the signature the signer answered before.
C3_StepOrder ==
    \A r \in Runs : run[r].op \in Eip712Ops =>
        /\ Len(run[r].calls) <= Len(Eip712Order)
        /\ \A i \in 1..Len(run[r].calls) :
              /\ run[r].calls[i].name = Eip712Order[i]
              /\ i < Len(run[r].calls) => run[r].calls[i].answer.status = "Ok"
              /\ i = 4 =>
                    /\ run[r].calls[4].arg.max_fee_per_gas =
                          run[r].calls[3].answer.val.max_fee_per_gas
                    /\ run[r].calls[4].arg.max_priority_fee_per_gas =
                          run[r].calls[3].answer.val.max_priority_fee_per_gas
                    /\ run[r].calls[4].arg.gas_limit =
                          run[r].calls[3].answer.val.gas_limit
              /\ i = 5 =>
                    RlpDecode(run[r].calls[5].arg).custom_signature =
                        SignatureToVec(run[r].calls[4].answer.val)

C3_Witness ==
    \E r \in Runs :
        /\ run[r].op = "transfer_eip712"
        /\ Len(run[r].calls) = 6
        /\ run[r].result.status = "Ok"

\* C4: in one invocation of transfer, transfer_eip712 or _deploy no
\* collaborator operation is called twice, whether its call succeeded or
\* failed.
C4_NoRetry ==
    \A r \in Runs :
        \A i, j \in 1..Len(run[r].calls) :
            i # j => run[r].calls[i].name # run[r].calls[j].name

C4_Witness ==
    \E r \in Runs :
        /\ run[r].op = "transfer_eip712"
        /\ run[r].pc = "done"
        /\ Len(run[r].calls) = 2
        /\ run[r].calls[2].name = "get_gas_price"
        /\ run[r].calls[2].answer.status = "Err"

\* C5: the bytes given to send_raw_transaction are the tag byte EIP712_TX_TYPE
\* followed by the encoding of the run's request, and that request's
\* customSignature is the 65 bytes of the signature the signer answered.
C5_TaggedSignedBytes ==
    \A r \in Runs : run[r].op \in Eip712Ops =>
        \A c \in CallsOf(run[r], "send_raw_transaction") :
            /\ Head(c.arg) = EIP712_TX_TYPE
            /\ Tail(c.arg) = RlpUnsigned(run[r].request)
            /\ run[r].request.custom_data.custom_signature # <<>>
            /\ BLen(run[r].request.custom_data.custom_signature) = 65
            /\ \E s \in CallsOf(run[r], "sign_typed_data") :
                  /\ s.answer.status = "Ok"
                  /\ run[r].request.custom_data.custom_signature =
                        SignatureToVec(s.answer.val)
                  /\ RlpDecode(c.arg).custom_signature =
                        SignatureToVec(s.answer.val)

C5_Witness ==
    \E r \in Runs :
        /\ run[r].op = "deploy_with_receipt"
        /\ \E c \in CallsOf(run[r], "send_raw_transaction") :
              c.answer.status = "Ok"

\* C6: the request submitted by transfer and by transfer_eip712 has the
\* wallet's address as from, the receiver argument as to and the amount
\* argument as value, in what is signed as well as in what is sent; the nonce
\* of transfer_eip712 is the provider's answer for the wallet's address.
C6_TransferFields ==
    \A r \in Runs :
        /\ run[r].op = "transfer" =>
              \A c \in CallsOf(run[r], "send_transaction") :
                  /\ c.arg.from = Some(wallet.address)
                  /\ c.arg.to = Some(run[r].to)
                  /\ c.arg.value = Some(run[r].amount_to_transfer)
        /\ run[r].op = "transfer_eip712" =>
              /\ \A c \in CallsOf(run[r], "get_transaction_count") :
                    c.arg = wallet.address
              /\ \A c \in CallsOf(run[r], "sign_typed_data") :
                    /\ c.arg.from = wallet.address
                    /\ c.arg.to = run[r].to
                    /\ c.arg.value = run[r].amount_to_transfer
                    /\ c.arg.nonce = run[r].calls[1].answer.val
              /\ \A c \in CallsOf(run[r], "send_raw_transaction") :
                    /\ RlpDecode(c.arg).from = wallet.address
                    /\ RlpDecode(c.arg).to = run[r].to
                    /\ RlpDecode(c.arg).value = run[r].amount_to_transfer
                    /\ RlpDecode(c.arg).nonce = run[r].calls[1].answer.val

C6_Witness ==
    \E r \in Runs :
        /\ run[r].op = "transfer_eip712"
        /\ run[r].amount_to_transfer = 1
        /\ \E c \in CallsOf(run[r], "send_raw_transaction") :
              RlpDecode(c.arg).nonce = 1

\* C7: in transfer_eip712 and _deploy the typed data that is signed and the
\* bytes that are submitted carry exactly the estimator's max_fee_per_gas,
\* max_priority_fee_per_gas and gas_limit, and the draft given to the
\* estimator carries the nonce and the gas price the provider answered.
C7_FeeApplied ==
    \A r \in Runs : run[r].op \in Eip712Ops =>
        \A e \in CallsOf(run[r], "estimate_fee") :
            /\ e.arg.nonce = run[r].calls[1].answer.val
            /\ e.arg.gas_price = run[r].calls[2].answer.val
            /\ \A c \in CallsOf(run[r], "sign_typed_data") :
                  /\ c.arg.max_fee_per_gas = e.answer.val.max_fee_per_gas
                  /\ c.arg.max_priority_fee_per_gas =
                        e.answer.val.max_priority_fee_per_gas
                  /\ c.arg.gas_limit = e.answer.val.gas_limit
            /\ \A c \in CallsOf(run[r], "send_raw_transaction") :
                  /\ RlpDecode(c.arg).max_fee_per_gas = e.answer.val.max_fee_per_gas
                  /\ RlpDecode(c.arg).max_priority_fee_per_gas =
                        e.answer.val.max_priority_fee_per_gas
                  /\ RlpDecode(c.arg).gas_limit = e.answer.val.gas_limit

C7_Witness ==
    \E r \in Runs :
        /\ run[r].op = "deploy"
        /\ \E c \in CallsOf(run[r], "send_raw_transaction") :
              /\ RlpDecode(c.arg).gas_limit = 21000
              /\ RlpDecode(c.arg).max_fee_per_gas = 100
              /\ RlpDecode(c.arg).max_priority_fee_per_gas = 10

ZeroFee ==
    [max_fee_per_gas |-> 0, max_priority_fee_per_gas |-> 0, gas_limit |-> 0]

UnexpectedArguments(rr) ==
    /\ ~rr.contract_abi.constructor.some
    /\ rr.constructor_parameters # <<>>

\* The ABI defines a constructor and fewer arguments than it requires are
\* supplied.
MissingArguments(rr) ==
    /\ rr.contract_abi.constructor.some
    /\ Len(rr.constructor_parameters) < Len(rr.contract_abi.constructor.val.inputs)

\* The run of _deploy ended with an error in the block that computes the
\* data, past the hash of the bytecode.
EndedAtCallData(rr) ==
    /\ rr.pc = "done"
    /\ rr.result.status = "Err"
    /\ Len(rr.calls) = 2
    /\ rr.calls[2].answer.status = "Ok"
    /\ BLen(rr.contract_bytecode) % 32 = 0
    /\ BLen(rr.contract_bytecode) \div 32 < 65536

DeployStepsPastData ==
    {"deploy_estimate_fee", "deploy_sign_typed_data",
     "deploy_send_raw_transaction", "deploy_pending_transaction"}

\* C10: the constructor call data of a deployment is the bytecode when the
\* ABI has no constructor and no parameters are given, the bytecode followed
\* by the encoding of the parameters when the ABI has a constructor (an empty
\* list included), and there is none for parameters without a constructor.
C10_CallData ==
    \A r \in Runs : run[r].op \in DeployOps =>
        /\ run[r].pc \in DeployStepsPastData => run[r].call_data.some
        /\ run[r].call_data.some =>
              IF run[r].contract_abi.constructor.some
              THEN run[r].call_data.val =
                      BCat(run[r].contract_bytecode,
                           AbiEncode(run[r].constructor_parameters))
              ELSE /\ run[r].constructor_parameters = <<>>
                   /\ run[r].call_data.val = run[r].contract_bytecode
        /\ UnexpectedArguments(run[r]) =>
              /\ ~run[r].call_data.some
              /\ run[r].request.data = <<>>

C10_Witness ==
    \E r \in Runs :
        /\ run[r].op = "deploy"
        /\ run[r].contract_abi.constructor.some
        /\ run[r].constructor_parameters = <<Uint(5)>>
        /\ run[r].call_data.some
        /\ BLen(run[r].call_data.val) = BLen(run[r].contract_bytecode) + 32


\* The call create(salt, bytecodeHash, constructorCallData) as call data: the
\* selector, the two 32-byte arguments, the offset and the length of the
\* dynamic bytes, and the bytes padded to whole words.
CreateCall(salt, bytecode_hash, call_data) ==
    BCat(CreateSelector,
    BCat(salt,
    BCat(bytecode_hash,
    BCat(Word(96),
    BCat(Word(BLen(call_data)), PadRight32(call_data))))))

\* The request of a deployment as the estimator and the transport see it.
DeployRequestsSeen(rr) ==
    {c.arg : c \in CallsOf(rr, "estimate_fee")}
        \cup {RlpDecode(c.arg) :
                c \in CallsOf(rr, "send_raw_transaction")}

\* C11: every deployment request that reaches the estimator or the transport
\* is addressed to the contract deployer with type EIP712_TX_TYPE and chain id
\* ERA_CHAIN_ID, and its data is create(salt, bytecodeHash, constructorCallData)
\* in that order with the hash of the main bytecode, not of a dependency.
C11_DeployRequest ==
    \A r \in Runs : run[r].op \in DeployOps =>
        \A req \in DeployRequestsSeen(run[r]) :
            /\ req.to = CONTRACT_DEPLOYER_ADDR
            /\ req.type = EIP712_TX_TYPE
            /\ req.chain_id = ERA_CHAIN_ID
            /\ run[r].call_data.some
            /\ HashBytecode(run[r].contract_bytecode).ok
            /\ req.data = CreateCall(Rep(0, 32),
                                     HashBytecode(run[r].contract_bytecode).val,
                                     run[r].call_data.val)
            /\ run[r].contract_dependencies.some =>
                  \A i \in 1..Len(run[r].contract_dependencies.val) :
                      LET dep == run[r].contract_dependencies.val[i]
                      IN  (dep # run[r].contract_bytecode /\ HashBytecode(dep).ok) =>
                              req.data # CreateCall(Rep(0, 32), HashBytecode(dep).val,
                                                    run[r].call_data.val)

C11_Witness ==
    \E r \in Runs :
        /\ run[r].op = "deploy"
        /\ run[r].contract_bytecode = CodeB
        /\ run[r].contract_dependencies = Some(<<CodeB, CodeA>>)
        /\ run[r].constructor_parameters = <<Uint(5)>>
        /\ HasCall(run[r], "send_raw_transaction")


\* C12: the salt of the create call is 32 zero bytes unless the caller
\* supplies one, and a caller-supplied salt is the one the call carries.
C12_CallerSaltUsed ==
    \A r \in Runs : run[r].op \in DeployOps =>
        \A req \in DeployRequestsSeen(run[r]) :
            req.data = CreateCall(IF run[r].salt.some THEN run[r].salt.val
                                                      ELSE Rep(0, 32),
                                  HashBytecode(run[r].contract_bytecode).val,
                                  run[r].call_data.val)


\* The factory deps a deployment is to declare: the main bytecode, then the
\* caller's dependencies in the caller's order.
ExpectedFactoryDeps(rr) ==
    IF rr.contract_dependencies.some
    THEN <<rr.contract_bytecode>> \o rr.contract_dependencies.val
    ELSE <<rr.contract_bytecode>>

\* C13: the factory deps of a deployment are the main bytecode first and then
\* contract_dependencies in the caller's order (the main bytecode alone when
\* there are none), and the request that is fee-estimated, the one that is
\* signed and the one that is submitted all carry that sequence.
C13_FactoryDeps ==
    \A r \in Runs : run[r].op \in DeployOps =>
        /\ \A c \in CallsOf(run[r], "estimate_fee") :
              c.arg.custom_data.factory_deps = ExpectedFactoryDeps(run[r])
        /\ \A c \in CallsOf(run[r], "sign_typed_data") :
              c.arg.factory_deps = ExpectedFactoryDeps(run[r])
        /\ \A c \in CallsOf(run[r], "send_raw_transaction") :
              RlpDecode(c.arg).factory_deps = ExpectedFactoryDeps(run[r])

C13_Witness ==
    \E r \in Runs :
        /\ run[r].op \in DeployOps
        /\ run[r].contract_bytecode = CodeA
        /\ run[r].contract_dependencies = Some(<<CodeB, CodeA>>)
        /\ \E c \in CallsOf(run[r], "send_raw_transaction") :
              RlpDecode(c.arg).factory_deps = <<CodeA, CodeB, CodeA>>


\* A deployment whose bytecode hash_bytecode rejects: the length is not a
\* multiple of 32 or the count of words does not fit 16 bits.
InvalidBytecode(rr) ==
    /\ rr.op \in DeployOps
    /\ ~HashBytecode(rr.contract_bytecode).ok

\* C14: a deployment with invalid bytecode returns an error, and fee
\* estimation, signing and send_raw_transaction are never invoked for it.
C14_InvalidBytecodeRejected ==
    \A r \in Runs : InvalidBytecode(run[r]) =>
        /\ run[r].pc = "done" => run[r].result.status = "Err"
        /\ ~HasCall(run[r], "estimate_fee")
        /\ ~HasCall(run[r], "sign_typed_data")
        /\ ~HasCall(run[r], "send_raw_transaction")

\* C15: every failure of an operation surfaces as a typed Err value, the
\* failure to open or parse the deployer ABI artifact and the absence of
\* create included; no operation aborts.
C15_TypedErrors ==
    \A r \in Runs : run[r].pc = "done" => run[r].result.status \in {"Ok", "Err"}


\* The operations that need the era provider, and the one that needs the eth
\* provider.
EraOps == {"era_balance", "transfer", "transfer_eip712", "deploy", "deploy_with_receipt"}

\* C17: an operation whose provider is not connected returns an error without
\* any external call, whether or not the other provider is connected;
\* eth_balance queries only the eth provider and era_balance only the era
\* provider.
C17_MissingProvider ==
    \A r \in Runs :
        /\ (run[r].op \in EraOps /\ ~era_provider.some) =>
              /\ run[r].pc = "done"
              /\ run[r].result.status = "Err"
              /\ run[r].calls = <<>>
        /\ (run[r].op = "eth_balance" /\ ~eth_provider.some) =>
              /\ run[r].pc = "done"
              /\ run[r].result.status = "Err"
              /\ run[r].calls = <<>>
        /\ run[r].op = "eth_balance" =>
              \A i \in 1..Len(run[r].calls) :
                  /\ run[r].calls[i].name = "get_balance"
                  /\ run[r].calls[i].arg.provider = "eth_provider"
        /\ run[r].op = "era_balance" =>
              \A i \in 1..Len(run[r].calls) :
                  /\ run[r].calls[i].name = "get_balance"
                  /\ run[r].calls[i].arg.provider = "era_provider"

C17_Witness ==
    \E r \in Runs :
        /\ run[r].op = "eth_balance"
        /\ ~eth_provider.some
        /\ era_provider.some
        /\ run[r].result = NoEraProvider
        /\ run[r].calls = <<>>


\* The submissions of a run: its calls to send_transaction or
\* send_raw_transaction.
Submissions(rr) ==
    {i \in 1..Len(rr.calls) :
        rr.calls[i].name \in {"send_transaction", "send_raw_transaction"}}

Submitted(rr) == \E i \in Submissions(rr) : rr.calls[i].answer.status = "Ok"

\* The receipt transfer, transfer_eip712 or _deploy returned, if it returned one.
ReturnedReceipt(rr) ==
    IF rr.op \in {"transfer", "transfer_eip712"}
    THEN IF rr.result.status = "Ok" THEN Some(rr.result.val) ELSE NoneOpt
    ELSE IF rr.op \in DeployOps THEN rr.transaction_receipt
    ELSE NoneOpt

\* C19: a receipt is returned only after exactly one submission whose pending
\* transaction yielded that receipt; a pending transaction without a receipt
\* gives the 'no transaction receipt' error; deploy and deploy_with_receipt
\* return Ok only with the receipt's contract address (and that receipt), and
\* 'no contract address' otherwise; both errors come only after submission.
C19_Receipts ==
    \A r \in Runs : run[r].pc = "done" =>
        LET rr == run[r]
        IN  /\ ReturnedReceipt(rr).some =>
                  /\ Cardinality(Submissions(rr)) = 1
                  /\ Submitted(rr)
                  /\ \E c \in CallsOf(rr, "pending_transaction") :
                        c.answer = Ok(ReturnedReceipt(rr))
            /\ \A c \in CallsOf(rr, "pending_transaction") :
                  c.answer = Ok(NoneOpt) => rr.result = NoReceipt
            /\ (rr.op \in DeployOps /\ rr.result.status = "Ok") =>
                  /\ rr.transaction_receipt.some
                  /\ rr.transaction_receipt.val.contract_address.some
                  /\ rr.result.val =
                        IF rr.op = "deploy"
                        THEN rr.transaction_receipt.val.contract_address.val
                        ELSE [contract_address |->
                                  rr.transaction_receipt.val.contract_address.val,
                              transaction_receipt |-> rr.transaction_receipt.val]
            /\ (/\ rr.op \in DeployOps
                /\ rr.transaction_receipt.some
                /\ ~rr.transaction_receipt.val.contract_address.some) =>
                  rr.result = NoContractAddress
            /\ rr.result \in {NoReceipt, NoContractAddress} => Submitted(rr)

C19_Witness ==
    \E r \in Runs :
        /\ run[r].op = "deploy_with_receipt"
        /\ run[r].pc = "done"
        /\ run[r].result = NoContractAddress
        /\ run[r].transaction_receipt.some
        /\ Submitted(run[r])


\* The nonces of the requests a run has submitted.
SubmittedNonces(rr) ==
    {RlpDecode(c.arg).nonce : c \in CallsOf(rr, "send_raw_transaction")}

\* Run r submits in this step.
Submits(r) ==
    /\ Len(run'[r].calls) = Len(run[r].calls) + 1
    /\ run'[r].calls[Len(run'[r].calls)].name = "send_raw_transaction"

\* The provider answers the nonce query of run r in this step.
NonceAnswered(r) ==
    /\ Len(run'[r].calls) = Len(run[r].calls) + 1
    /\ run'[r].calls[Len(run'[r].calls)].name = "get_transaction_count"
    /\ run'[r].calls[Len(run'[r].calls)].answer.status = "Ok"

C18_SignerChainIds ==
    /\ era_provider.some => era_provider.val.signer.chain_id = ERA_CHAIN_ID
    /\ eth_provider.some => eth_provider.val.signer.chain_id = ETH_CHAIN_ID
    /\ wallet.chain_id = ERA_CHAIN_ID

\* C20: each connect operation replaces only the slot it names and leaves the
\* wallet and the other slot as they were, so address() never changes; the
\* balance, transfer and deploy operations change neither the wallet nor a
\* provider slot.
C20_Frame ==
    [][/\ wallet' = wallet
       /\ address' = address
       /\ eth_provider' # eth_provider =>
             /\ connect_eth_provider \/ connect_eth_signer
             /\ era_provider' = era_provider
             /\ run' = run
       /\ era_provider' # era_provider =>
             /\ connect_era_provider \/ connect_era_signer
             /\ eth_provider' = eth_provider
             /\ run' = run]_vars

C20_Witness ==
    /\ era_provider = Some(WithSigner("p1", wallet))
    /\ eth_provider.some
    /\ eth_provider.val.signer.address # wallet.address
    /\ address = WalletAddress
    /\ run[1].op = "deploy"
    /\ run[1].result.status = "Ok"

====
